---- MODULE Spec2Model ----
(***************************************************************************)
(* State-machine model of ImageCanvas (src/canvas.py): the marker store    *)
(* with its unified undo history, the Hand/Point/Box mode controller, the  *)
(* two-click box draft, the cursor overlays and the wheel zoom.            *)
(***************************************************************************)
EXTENDS Integers, Sequences, FiniteSets, TLC

(***************************************************************************)
(* Bounds of the model.                                                    *)
(***************************************************************************)
\* largest number of markers alive at once (the environment stops
\* committing when the history holds this many)
MaxMarkers == 2
\* wheel events delivered since the zoom was last reset to 1.0, in SpecZoom
MaxZoomWheel == 30

\* the largest device-pixel position of the pointer
MaxScreen == 8

\* the most preview rectangles the scene comes to hold (the environment
\* starts no further draft)
MaxPreviewItems == 2

(***************************************************************************)
(* IEEE-754 binary64 arithmetic.  _current_zoom is a Python float; a       *)
(* positive normal double is [m, e] with value M * 2^e, where M is the     *)
(* 53-bit significand (2^52 <= M < 2^53) held in m as four little-endian   *)
(* limbs of LimbBits bits.                                                 *)
(***************************************************************************)
LimbBits == 7 + 7
Base == 2 ^ LimbBits

\* limb j (0-based) of a limb sequence, 0 beyond its length
LimbAt(P, j) == IF j + 1 <= Len(P) THEN P[j + 1] ELSE 0

\* column sums of the schoolbook product of two 4-limb significands
MulColumn(a, b, k) ==
    LET Term(i) == IF k - i >= 0 /\ k - i <= 3 THEN a[i + 1] * b[k - i + 1] ELSE 0
    IN  Term(0) + Term(1) + Term(2) + Term(3)

RECURSIVE CarryFrom(_, _, _, _)
\* carry propagation over the columns k..7, with incoming carry c
CarryFrom(a, b, k, c) ==
    IF k > 7 THEN <<>>
    ELSE LET s == MulColumn(a, b, k) + c
         IN  <<s % Base>> \o CarryFrom(a, b, k + 1, s \div Base)

\* the exact 106-bit product of two significands, as 8 limbs
BigMul(a, b) == CarryFrom(a, b, 0, 0)

\* the LimbBits bits of P starting at bit lo
Extract(P, lo) ==
    LET j == lo \div LimbBits
        o == lo % LimbBits
    IN  (LimbAt(P, j) \div (2 ^ o)) + (LimbAt(P, j + 1) % (2 ^ o)) * (2 ^ (LimbBits - o))

\* bit i of P
BitOf(P, i) == (LimbAt(P, i \div LimbBits) \div (2 ^ (i % LimbBits))) % 2

\* TRUE iff some bit of P below bit i is set (i >= 3 * LimbBits)
StickyBelow(P, i) ==
    \/ P[1] # 0
    \/ P[2] # 0
    \/ P[3] # 0
    \/ P[4] % (2 ^ (i - 3 * LimbBits)) # 0

RECURSIVE BigInc(_, _)
\* m + 1 on limbs from position k (1-based) on
BigInc(m, k) ==
    IF k > Len(m) THEN m
    ELSE IF m[k] + 1 < Base THEN [m EXCEPT ![k] = m[k] + 1]
    ELSE BigInc([m EXCEPT ![k] = 0], k + 1)

\* a * b, rounded to nearest, ties to even (Python float multiplication)
DMul(a, b) ==
    LET P  == BigMul(a.m, b.m)
        s  == IF P[8] >= 2 ^ (105 - 7 * LimbBits) THEN 53 ELSE 52
        q  == << Extract(P, s), Extract(P, s + LimbBits),
                 Extract(P, s + 2 * LimbBits), Extract(P, s + 3 * LimbBits) >>
        up == BitOf(P, s - 1) = 1 /\ (StickyBelow(P, s - 1) \/ q[1] % 2 = 1)
        r  == IF up THEN BigInc(q, 1) ELSE q
    IN  IF r[4] >= 2 ^ (53 - 3 * LimbBits)
        THEN [m |-> <<0, 0, 0, 2 ^ (52 - 3 * LimbBits)>>, e |-> a.e + b.e + s + 1]
        ELSE [m |-> r, e |-> a.e + b.e + s]

\* a < b on positive normal doubles
DLess(a, b) ==
    \/ a.e < b.e
    \/ /\ a.e = b.e
       /\ \/ a.m[4] < b.m[4]
          \/ a.m[4] = b.m[4] /\ a.m[3] < b.m[3]
          \/ a.m[4] = b.m[4] /\ a.m[3] = b.m[3] /\ a.m[2] < b.m[2]
          \/ a.m[4] = b.m[4] /\ a.m[3] = b.m[3] /\ a.m[2] = b.m[2] /\ a.m[1] < b.m[1]

\* a <= b
DLeq(a, b) == a = b \/ DLess(a, b)

\* the float 1.0
One == [m |-> <<0, 0, 0, 1024>>, e |-> -52]
\* ZOOM_FACTOR = 1.15 = 0x1.2666666666666p+0
ZOOM_FACTOR == [m |-> <<9830, 6553, 9830, 1177>>, e |-> -52]
\* 1.0 / ZOOM_FACTOR = 0.8695652173913044 = 0x1.bd37a6f4de9bep-1
INV_ZOOM_FACTOR == [m |-> <<10686, 15671, 14246, 1780>>, e |-> -53]
\* MIN_ZOOM = 0.05 = 0x1.999999999999ap-5
MIN_ZOOM == [m |-> <<6554, 9830, 6553, 1638>>, e |-> -57]
\* MAX_ZOOM = 50.0
MAX_ZOOM == [m |-> <<0, 0, 0, 1600>>, e |-> -47]


(***************************************************************************)
(* Inputs.                                                                 *)
(***************************************************************************)
\* pixel sizes <<width, height>> of the image files that decode
Images == { <<2, 2>>, <<2, 1>> }
\* QPixmap(path) of a file that cannot be opened or decoded: isNull()
NullPixmap == <<0, 0>>
\* None, for the attributes that hold a position or a size
NoItem == <<>>
\* _box_preview is None: no preview item was ever created
NoPreview == [item |-> FALSE, visible |-> FALSE, rect |-> <<0, 0, 0, 0>>]
\* a preview item: what _box_preview refers to
PreviewItem(visible, rect) == [item |-> TRUE, visible |-> visible, rect |-> rect]
\* scene positions <<sx, sy>> delivered by mapToScene, in half pixels (h stands
\* for h/2): inside the pixels (1,0) and (1,1) of the 2x2 image, half a pixel
\* above the image (over pixel (1,0) after truncation), a whole pixel left of
\* the image, and right of it
ScenePositions == { <<3, 1>>, <<3, 3>>, <<3, -1>>, <<-2, 1>>, <<4, 1>> }
Buttons == {"left", "middle", "right"}
\* scene positions of the pointer-move events delivered: half a pixel left of
\* the image (over pixel (0,1) after truncation) and a whole pixel left of it
MovePositions == { <<-1, 3>>, <<-2, 1>> }
\* <<button, modifier keys held, scene position>> of the press events
\* delivered: plain left presses everywhere; the handler never reads the
\* position of a right, middle or Ctrl+left press, which are delivered at one
\* position, as is the left press with Shift held
Presses ==
    { <<"left", {}, p>> : p \in ScenePositions }
        \cup { <<"left", {"ctrl"}, <<3, 1>> >>, <<"left", {"shift"}, <<3, 1>> >>,
               <<"middle", {}, <<3, 1>> >>, <<"right", {}, <<3, 1>> >> }
Modes == {"hand", "point", "box"}
\* angleDelta().y() of a wheel event
WheelDeltas == {-120, 0, 120}

(***************************************************************************)
(* State of an ImageCanvas.                                                *)
(***************************************************************************)
VARIABLES
    has_image,        \* _has_image
    pixmap,           \* size of _pixmap_item's pixmap, NoItem when _pixmap_item is None
    markers,          \* _markers: list of PointMarker
    box_markers,      \* _box_markers: list of BoxMarker
    marker_history,   \* _marker_history: the same objects, in commit order
    current_zoom,     \* _current_zoom, a float
    mode,             \* _mode
    cursor,           \* the widget's cursor glyph (setCursor)
    is_panning,       \* _is_panning
    box_start,        \* _box_start: NoItem or <<x, y>>
    box_temp_point,   \* _box_temp_point: NoItem or the item's position
    box_preview,      \* _box_preview: NoPreview or a PreviewItem
    coord_visible,    \* CoordOverlay items visible
    crosshair_visible,\* Crosshair lines visible
    scene_items,      \* <<temporary points, preview rectangles>> the scene holds
    zoom_steps,       \* wheel events handled since the zoom was last set to 1.0
    ret,              \* what the last operation returned to its caller
    emitted,          \* the signals the last operation emitted, in order
    slot_view,        \* for each of them, what a connected slot found in the lists
    commit_order,     \* observer: the markers present, oldest commit first
    round_trip        \* observer: the last point commit as the view showed it

store    == <<markers, box_markers, marker_history>>
draft    == <<box_start, box_temp_point, box_preview, scene_items>>
overlays == <<coord_visible, crosshair_visible>>
image    == <<has_image, pixmap>>
zoom     == <<current_zoom, zoom_steps>>
vars     == <<has_image, pixmap, markers, box_markers, marker_history, current_zoom,
              mode, cursor, is_panning, box_start, box_temp_point, box_preview,
              coord_visible, crosshair_visible, scene_items, zoom_steps, ret,
              emitted, slot_view, commit_order, round_trip>>

\* return values: None, True, False
NoRet == "None"

\* a handler that emits no signal
NoSignal == emitted' = <<>> /\ slot_view' = <<>>

\* signal.emit(...) as the handler's last change to the lists: the slots run
\* inside emit and find the lists as the handler leaves them
EmitsLast(sig) ==
    /\ emitted' = <<sig>>
    /\ slot_view' = << <<Len(markers'), Len(box_markers')>> >>

Min(a, b) == IF a <= b THEN a ELSE b
Max(a, b) == IF a >= b THEN a ELSE b
Abs(a) == IF a >= 0 THEN a ELSE -a

\* int(v) of the scene coordinate v = h / 2: truncation toward zero
IntOf(h) == IF h >= 0 THEN h \div 2 ELSE -((-h) \div 2)

(***************************************************************************)
(* The viewport conversion on one axis (both axes are converted alike).    *)
(* The view shows the scene scaled by s = s[1] / s[2] device pixels per    *)
(* image pixel and scrolled by scroll device pixels.  Positions that are   *)
(* not whole numbers are fractions <<numerator, denominator>>.             *)
(***************************************************************************)
\* event.position().toPoint().x() ranges over -4 .. MaxScreen
ScreenXs == -4 .. MaxScreen

\* the horizontal scroll offsets
Scrolls == {0, 3}

\* the view scales: 1/2, 1, 3/2 and 4 device pixels per image pixel
Scales == { <<1, 2>>, <<1, 1>>, <<3, 2>>, <<4, 1>> }

\* mapToScene(p).x(): the scene coordinate under device pixel p
SceneOf(p, scroll, s) == << (p + scroll) * s[2], s[1] >>

\* variant: int() replaced by rounding to the nearest whole number
IntOfFractionNearest(q) == (2 * q[1] + q[2]) \div (2 * q[2])

\* int(q) of the fraction q: truncation toward zero
IntOfFraction(q) == IF q[1] >= 0 THEN q[1] \div q[2] ELSE -((-q[1]) \div q[2])

\* where the view shows scene coordinate img: the device position of an item
\* placed at the image coordinate
ViewOf(img, scroll, s) == << img * s[1] - scroll * s[2], s[2] >>

\* no point committed yet
NoConversion ==
    [done |-> FALSE, screen |-> 0, scroll |-> 0, scale |-> <<1, 1>>,
     scene |-> <<0, 1>>, img |-> 0, back |-> <<0, 1>>]

\* variant: the bounds test admits x = width and y = height
InPixmapInclusive(x, y, pm) == 0 <= x /\ x <= pm[1] /\ 0 <= y /\ y <= pm[2]

\* 0 <= img_x < pixmap.width() and 0 <= img_y < pixmap.height()
InPixmap(x, y, pm) == 0 <= x /\ x < pm[1] /\ 0 <= y /\ y < pm[2]

(***************************************************************************)
(* Marker objects.  A marker is a Python object compared by identity; id   *)
(* is that identity, fresh among the objects that are alive.               *)
(***************************************************************************)
LiveIds ==
    {markers[i].id : i \in DOMAIN markers}
        \cup {box_markers[i].id : i \in DOMAIN box_markers}
        \cup {marker_history[i].id : i \in DOMAIN marker_history}

FreshId == CHOOSE n \in 1 .. (Cardinality(LiveIds) + 1) :
               n \notin LiveIds /\ \A k \in 1 .. (n - 1) : k \in LiveIds

PointMarker(id, img_x, img_y) ==
    [kind |-> "point", id |-> id, img_x |-> img_x, img_y |-> img_y]

\* variant: the corners are stored in click order
BoxMarkerAsClicked(id, x1, y1, x2, y2) ==
    [kind |-> "box", id |-> id, x1 |-> x1, y1 |-> y1, x2 |-> x2, y2 |-> y2,
     width |-> Abs(x2 - x1), height |-> Abs(y2 - y1)]

BoxMarker(id, x1, y1, x2, y2) ==
    [kind |-> "box", id |-> id,
     x1 |-> Min(x1, x2), y1 |-> Min(y1, y2),
     x2 |-> Max(x1, x2), y2 |-> Max(y1, y2),
     width |-> Abs(x2 - x1), height |-> Abs(y2 - y1)]

\* variant: the first element of the list is dropped, whichever it is
ListRemoveFirst(list, marker) ==
    IF list = <<>> THEN list ELSE Tail(list)

\* the exception list.remove raises: "list.remove(x): x not in list"
ValueError == "ValueError"

\* TRUE iff the object marker is no element of list
NotInList(list, marker) == \A i \in DOMAIN list : list[i].id # marker.id

\* list.remove(marker): drops the first element that is the object marker,
\* and raises ValueError when there is none
ListRemove(list, marker) ==
    LET hits == {i \in DOMAIN list : list[i].id = marker.id}
    IN  IF hits = {} THEN ValueError
        ELSE LET k == CHOOSE i \in hits : \A j \in hits : i <= j
             IN  SubSeq(list, 1, k - 1) \o SubSeq(list, k + 1, Len(list))

(***************************************************************************)
(* Initial state: ImageCanvas.__init__                                     *)
(***************************************************************************)
Init ==
    /\ has_image = FALSE
    /\ pixmap = NoItem
    /\ markers = <<>>
    /\ box_markers = <<>>
    /\ marker_history = <<>>
    /\ current_zoom = One
    /\ mode = "hand"
    /\ cursor = "arrow"
    /\ is_panning = FALSE
    /\ box_start = NoItem
    /\ box_temp_point = NoItem
    /\ box_preview = NoPreview
    /\ scene_items = <<0, 0>>
    /\ coord_visible = FALSE
    /\ crosshair_visible = FALSE
    /\ zoom_steps = 0
    /\ ret = NoRet
    /\ emitted = <<>>
    /\ slot_view = <<>>
    /\ commit_order = <<>>
    /\ round_trip = NoConversion

(***************************************************************************)
(* Mode controller.                                                        *)
(***************************************************************************)
\* the cursor glyph set_mode and mouseReleaseEvent choose for a mode
ModeCursor(m) ==
    IF m = "hand" THEN "arrow" ELSE IF m = "point" THEN "point_cursor" ELSE "box_cursor"

\* _cleanup_box_state
cleanup_box_state ==
    /\ box_start' = NoItem
    /\ box_temp_point' = NoItem
    /\ scene_items' = << IF box_temp_point # NoItem THEN scene_items[1] - 1 ELSE scene_items[1],
                         scene_items[2] >>
    /\ box_preview' = IF box_preview.item
                       THEN [box_preview EXCEPT !.visible = FALSE]
                       ELSE box_preview

\* variant: the draft is left alone
SetModeBodyKeepsDraft(m) ==
    /\ UNCHANGED draft
    /\ mode' = m
    /\ cursor' = ModeCursor(m)
    /\ EmitsLast(<<"mode_changed", m>>)

\* variant: mode_changed is emitted only when the mode changes
SetModeBodySilentWhenSame(m) ==
    /\ IF mode = "box" THEN cleanup_box_state ELSE UNCHANGED draft
    /\ mode' = m
    /\ cursor' = ModeCursor(m)
    /\ IF m = mode THEN NoSignal ELSE EmitsLast(<<"mode_changed", m>>)

\* the body of set_mode(m)
SetModeBody(m) ==
    /\ IF mode = "box" THEN cleanup_box_state ELSE UNCHANGED draft
    /\ mode' = m
    /\ cursor' = ModeCursor(m)
    /\ EmitsLast(<<"mode_changed", m>>)

set_mode(m) ==
    /\ UNCHANGED <<image, store, zoom, is_panning, overlays>>
    /\ SetModeBody(m)
    /\ ret' = NoRet

\* variant: Point toggles back to Hand
ToggleTargetSkipsBox(m) ==
    IF m = "hand" THEN "point" ELSE "hand"

\* the mode toggle_mode passes to set_mode
ToggleTarget(m) ==
    IF m = "hand" THEN "point" ELSE IF m = "point" THEN "box" ELSE "hand"

toggle_mode ==
    /\ UNCHANGED <<image, store, zoom, is_panning, overlays>>
    /\ SetModeBody(ToggleTarget(mode))
    /\ ret' = NoRet

(***************************************************************************)
(* Public operations on the image and the marker store.                    *)
(***************************************************************************)
\* variant: clear_all without the zoom reset
ClearAllBodyKeepsZoom ==
    /\ coord_visible' = FALSE
    /\ crosshair_visible' = FALSE
    /\ markers' = <<>>
    /\ box_markers' = <<>>
    /\ marker_history' = <<>>
    /\ cleanup_box_state
    /\ UNCHANGED zoom

\* what clear_all does to everything but the image: overlays hidden, the
\* three lists cleared, the draft cleaned up, zoom reset
ClearAllBody ==
    /\ coord_visible' = FALSE
    /\ crosshair_visible' = FALSE
    /\ markers' = <<>>
    /\ box_markers' = <<>>
    /\ marker_history' = <<>>
    /\ cleanup_box_state
    /\ current_zoom' = One
    /\ zoom_steps' = 0

clear_all ==
    /\ ClearAllBody
    /\ pixmap' = NoItem
    /\ has_image' = FALSE
    /\ ret' = NoRet
    /\ NoSignal
    /\ UNCHANGED <<mode, cursor, is_panning>>

\* variant: clear_all is called before the pixmap is tested
load_image_clears_first(pm) ==
    /\ NoSignal
    /\ ClearAllBody
    /\ UNCHANGED <<mode, cursor, is_panning>>
    /\ IF pm = NullPixmap
       THEN /\ ret' = "False"
            /\ pixmap' = NoItem
            /\ has_image' = FALSE
       ELSE /\ pixmap' = pm
            /\ has_image' = TRUE
            /\ ret' = "True"

\* variant: a successful load keeps the markers of the image before
load_image_keeps_markers(pm) ==
    /\ NoSignal
    /\ IF pm = NullPixmap
       THEN /\ ret' = "False"
            /\ UNCHANGED <<image, store, zoom, draft, overlays, mode, cursor, is_panning>>
       ELSE /\ coord_visible' = FALSE
            /\ crosshair_visible' = FALSE
            /\ cleanup_box_state
            /\ current_zoom' = One
            /\ zoom_steps' = 0
            /\ pixmap' = pm
            /\ has_image' = TRUE
            /\ ret' = "True"
            /\ UNCHANGED <<store, mode, cursor, is_panning>>

\* what load_image(path) does to the canvas, pm the size of QPixmap(path)
LoadImageBody(pm) ==
    IF pm = NullPixmap
    THEN UNCHANGED <<image, store, zoom, draft, overlays, mode, cursor, is_panning>>
    ELSE /\ ClearAllBody
         /\ pixmap' = pm
         /\ has_image' = TRUE
         /\ UNCHANGED <<mode, cursor, is_panning>>

\* load_image(path), pm the size of QPixmap(path)
load_image(pm) ==
    /\ NoSignal
    /\ ret' = IF pm = NullPixmap THEN "False" ELSE "True"
    /\ LoadImageBody(pm)

(***************************************************************************)
(* Drag and drop.  A drop is [has_urls, path, pixmap]: whether the mime     *)
(* data has URLs, urls()[0].toLocalFile() as [root, ext] (what              *)
(* os.path.splitext makes of it), and the size of QPixmap(path).  An        *)
(* extension is the sequence of its characters, which are ASCII.            *)
(***************************************************************************)
\* toLocalFile() of a URL that is no local file: the empty string
EmptyPath == [root |-> "", ext |-> <<>>]

\* the drops delivered: dragged text, a web link, an image file whose
\* extension is in capitals, a text file, and an image file that does not
\* decode
Drops ==
    { [has_urls |-> FALSE, path |-> EmptyPath, pixmap |-> NullPixmap],
      [has_urls |-> TRUE, path |-> EmptyPath, pixmap |-> NullPixmap],
      [has_urls |-> TRUE, path |-> [root |-> "/img/a", ext |-> <<".", "P", "N", "G">>], pixmap |-> <<2, 2>>],
      [has_urls |-> TRUE, path |-> [root |-> "/img/notes", ext |-> <<".", "t", "x", "t">>], pixmap |-> NullPixmap],
      [has_urls |-> TRUE, path |-> [root |-> "/img/broken", ext |-> <<".", "p", "n", "g">>], pixmap |-> NullPixmap] }

\* the cased characters, each upper-case letter at the index of its
\* lower-case letter
UpperCase ==
    << "A", "B", "C", "D", "E", "F", "G", "H", "I", "J", "K", "L", "M",
       "N", "O", "P", "Q", "R", "S", "T", "U", "V", "W", "X", "Y", "Z" >>
LowerCase ==
    << "a", "b", "c", "d", "e", "f", "g", "h", "i", "j", "k", "l", "m",
       "n", "o", "p", "q", "r", "s", "t", "u", "v", "w", "x", "y", "z" >>

\* str.lower() of one character: an upper-case letter becomes its lower-case
\* letter, every other character stays
LowerChar(c) ==
    IF \E i \in DOMAIN UpperCase : UpperCase[i] = c
    THEN LowerCase[CHOOSE i \in DOMAIN UpperCase : UpperCase[i] = c]
    ELSE c

\* str.lower() of the extension
Lower(ext) == [i \in DOMAIN ext |-> LowerChar(ext[i])]

\* the extensions MainWindow._on_image_dropped accepts
SupportedExts ==
    { <<".", "p", "n", "g">>,
      <<".", "j", "p", "g">>,
      <<".", "j", "p", "e", "g">>,
      <<".", "b", "m", "p">>,
      <<".", "t", "i", "f", "f">>,
      <<".", "t", "i", "f">>,
      <<".", "w", "e", "b", "p">> }

\* MainWindow._on_image_dropped, the slot connected to image_dropped: a path
\* with a supported extension is handed to load_image
on_image_dropped(d) ==
    IF Lower(d.path.ext) \notin SupportedExts
    THEN UNCHANGED <<image, store, zoom, draft, overlays, mode, cursor, is_panning>>
    ELSE LoadImageBody(d.pixmap)

\* dropEvent: image_dropped(path) is emitted for a local file, and the slot
\* runs inside the emit; it finds the lists as they were before the drop
dropEvent(d) ==
    /\ ret' = NoRet
    /\ IF d.has_urls /\ d.path # EmptyPath
       THEN /\ emitted' = << <<"image_dropped", d.path>> >>
            /\ slot_view' = << <<Len(markers), Len(box_markers)>> >>
            /\ on_image_dropped(d)
       ELSE /\ NoSignal
            /\ UNCHANGED <<image, store, zoom, draft, overlays, mode, cursor, is_panning>>

\* the body of fit_view
FitViewBody ==
    IF has_image /\ pixmap # NoItem
    THEN current_zoom' = One /\ zoom_steps' = 0
    ELSE UNCHANGED zoom

fit_view ==
    /\ FitViewBody
    /\ ret' = NoRet
    /\ NoSignal
    /\ UNCHANGED <<image, store, draft, overlays, mode, cursor, is_panning>>

\* variant: the history is not cleared
clear_points_keeps_history ==
    /\ markers' = <<>>
    /\ box_markers' = <<>>
    /\ EmitsLast(<<"points_cleared">>)
    /\ ret' = NoRet
    /\ UNCHANGED <<marker_history, image, zoom, draft, overlays, mode, cursor, is_panning>>

\* variant: clear_points also cancels the draft
clear_points_cancels_draft ==
    /\ markers' = <<>>
    /\ box_markers' = <<>>
    /\ marker_history' = <<>>
    /\ cleanup_box_state
    /\ EmitsLast(<<"points_cleared">>)
    /\ ret' = NoRet
    /\ UNCHANGED <<image, zoom, overlays, mode, cursor, is_panning>>

clear_points ==
    /\ markers' = <<>>
    /\ box_markers' = <<>>
    /\ marker_history' = <<>>
    /\ EmitsLast(<<"points_cleared">>)
    /\ ret' = NoRet
    /\ UNCHANGED <<image, zoom, draft, overlays, mode, cursor, is_panning>>

\* variant: the oldest history entry is removed instead of the newest
UndoBodyOldestFirst ==
    IF marker_history = <<>>
    THEN /\ UNCHANGED store
         /\ NoSignal
    ELSE LET marker == marker_history[1]
         IN  /\ marker_history' = SubSeq(marker_history, 2, Len(marker_history))
             /\ IF marker.kind = "point"
                THEN markers' = ListRemove(markers, marker) /\ UNCHANGED box_markers
                ELSE box_markers' = ListRemove(box_markers, marker) /\ UNCHANGED markers
             /\ EmitsLast(<<"point_undone">>)

\* variant: point_undone is emitted before the marker leaves its list
UndoBodyEmitsFirst ==
    IF marker_history = <<>>
    THEN /\ UNCHANGED store
         /\ NoSignal
    ELSE LET marker == marker_history[Len(marker_history)]
         IN  /\ marker_history' = SubSeq(marker_history, 1, Len(marker_history) - 1)
             /\ emitted' = << <<"point_undone">> >>
             /\ slot_view' = << <<Len(markers), Len(box_markers)>> >>
             /\ IF marker.kind = "point"
                THEN markers' = ListRemove(markers, marker) /\ UNCHANGED box_markers
                ELSE box_markers' = ListRemove(box_markers, marker) /\ UNCHANGED markers

\* variant: point_undone carries the kind of the marker removed
UndoBodyReportsKind ==
    IF marker_history = <<>>
    THEN /\ UNCHANGED store
         /\ NoSignal
    ELSE LET marker == marker_history[Len(marker_history)]
         IN  /\ marker_history' = SubSeq(marker_history, 1, Len(marker_history) - 1)
             /\ IF marker.kind = "point"
                THEN markers' = ListRemove(markers, marker) /\ UNCHANGED box_markers
                ELSE box_markers' = ListRemove(box_markers, marker) /\ UNCHANGED markers
             /\ EmitsLast(<<"point_undone", marker.kind>>)

\* TRUE iff undo_last_marker ends in the ValueError of list.remove: the
\* marker popped from the history is not in the list of its kind
UndoRaises ==
    /\ marker_history # <<>>
    /\ LET marker == marker_history[Len(marker_history)]
       IN  NotInList(IF marker.kind = "point" THEN markers ELSE box_markers, marker)

\* what undo_last_marker gives its caller: None, or the exception
UndoReturn == IF UndoRaises THEN ValueError ELSE NoRet

\* the body of undo_last_marker; when list.remove raises, the history has
\* lost its last entry and nothing after the remove has run
UndoBody ==
    IF marker_history = <<>>
    THEN /\ UNCHANGED store
         /\ NoSignal
    ELSE LET marker == marker_history[Len(marker_history)]
         IN  /\ marker_history' = SubSeq(marker_history, 1, Len(marker_history) - 1)
             /\ IF UndoRaises
                THEN /\ UNCHANGED <<markers, box_markers>>
                     /\ NoSignal
                ELSE /\ IF marker.kind = "point"
                        THEN markers' = ListRemove(markers, marker) /\ UNCHANGED box_markers
                        ELSE box_markers' = ListRemove(box_markers, marker) /\ UNCHANGED markers
                     /\ EmitsLast(<<"point_undone">>)

undo_last_marker ==
    /\ UndoBody
    /\ ret' = UndoReturn
    /\ UNCHANGED <<image, zoom, draft, overlays, mode, cursor, is_panning>>

(***************************************************************************)
(* Pointer and wheel events.  (sx, sy) is the scene position of the        *)
(* pointer, mapToScene(event.position().toPoint()), in half pixels.  The   *)
(* scroll bar values and _pan_start belong to the viewport and are not     *)
(* part of the state modelled here.                                        *)
(***************************************************************************)
\* variant: the rectangle runs from the anchor, not normalised
PreviewRectFromAnchor(start, x2, y2) ==
    << start[1], start[2], x2 - start[1], y2 - start[2] >>

\* the rectangle _update_box_preview gives the preview item
PreviewRect(start, x2, y2) ==
    << Min(start[1], x2), Min(start[2], y2), Abs(x2 - start[1]), Abs(y2 - start[2]) >>

\* variant: coord_changed carries (y, x)
mouseMoveEventSwapsCoordinates(sx, sy) ==
    LET img_x == IntOf(sx)
        img_y == IntOf(sy)
    IN  /\ ret' = NoRet
        /\ UNCHANGED <<image, store, zoom, mode, cursor, is_panning, box_start, box_temp_point, scene_items>>
        /\ IF is_panning
           THEN /\ NoSignal
                /\ UNCHANGED <<overlays, box_preview>>
           ELSE IF ~has_image
           THEN /\ coord_visible' = FALSE
                /\ crosshair_visible' = FALSE
                /\ NoSignal
                /\ UNCHANGED box_preview
           ELSE IF InPixmap(img_x, img_y, pixmap)
           THEN /\ coord_visible' = TRUE
                /\ crosshair_visible' = TRUE
                /\ EmitsLast(<<"coord_changed", img_y, img_x>>)
                /\ IF mode = "box" /\ box_start # NoItem
                   THEN box_preview' = PreviewItem(TRUE, PreviewRect(box_start, img_x, img_y))
                   ELSE UNCHANGED box_preview
           ELSE /\ coord_visible' = FALSE
                /\ crosshair_visible' = FALSE
                /\ NoSignal
                /\ UNCHANGED box_preview

mouseMoveEvent(sx, sy) ==
    LET img_x == IntOf(sx)
        img_y == IntOf(sy)
    IN  /\ ret' = NoRet
        /\ UNCHANGED <<image, store, zoom, mode, cursor, is_panning, box_start, box_temp_point, scene_items>>
        /\ IF is_panning
           THEN /\ NoSignal
                /\ UNCHANGED <<overlays, box_preview>>
           ELSE IF ~has_image
           THEN /\ coord_visible' = FALSE
                /\ crosshair_visible' = FALSE
                /\ NoSignal
                /\ UNCHANGED box_preview
           ELSE IF InPixmap(img_x, img_y, pixmap)
           THEN /\ coord_visible' = TRUE
                /\ crosshair_visible' = TRUE
                /\ EmitsLast(<<"coord_changed", img_x, img_y>>)
                /\ IF mode = "box" /\ box_start # NoItem
                   THEN box_preview' = PreviewItem(TRUE, PreviewRect(box_start, img_x, img_y))
                   ELSE UNCHANGED box_preview
           ELSE /\ coord_visible' = FALSE
                /\ crosshair_visible' = FALSE
                /\ NoSignal
                /\ UNCHANGED box_preview

\* variant: the new point is inserted at the front of _markers
PointPressInFront(img_x, img_y) ==
    IF InPixmap(img_x, img_y, pixmap)
    THEN LET marker == PointMarker(FreshId, img_x, img_y)
         IN  /\ markers' = <<marker>> \o markers
             /\ marker_history' = Append(marker_history, marker)
             /\ UNCHANGED box_markers
             /\ EmitsLast(<<"point_added", img_x, img_y>>)
    ELSE /\ UNCHANGED store
         /\ NoSignal

\* Point mode, left button: the lists and the signals after the press
PointPress(img_x, img_y) ==
    IF InPixmap(img_x, img_y, pixmap)
    THEN LET marker == PointMarker(FreshId, img_x, img_y)
         IN  /\ markers' = Append(markers, marker)
             /\ marker_history' = Append(marker_history, marker)
             /\ UNCHANGED box_markers
             /\ EmitsLast(<<"point_added", img_x, img_y>>)
    ELSE /\ UNCHANGED store
         /\ NoSignal

\* variant: every second click makes a box
BoxCommitsAlways(x1, y1, img_x, img_y) == TRUE

\* TRUE iff the second click of a draft at (img_x, img_y) makes a box
BoxCommits(x1, y1, img_x, img_y) == img_x # x1 \/ img_y # y1

\* Box mode, left button: the draft, the lists and the signals after the press
BoxPress(img_x, img_y) ==
    IF ~InPixmap(img_x, img_y, pixmap)
    THEN /\ UNCHANGED <<store, draft>>
         /\ NoSignal
    ELSE IF box_start = NoItem
    THEN /\ box_start' = <<img_x, img_y>>
         /\ box_temp_point' = <<img_x, img_y>>
         /\ box_preview' = PreviewItem(TRUE, <<0, 0, 0, 0>>)
         /\ scene_items' = <<scene_items[1] + 1, scene_items[2] + 1>>
         /\ UNCHANGED store
         /\ NoSignal
    ELSE LET x1 == box_start[1]
             y1 == box_start[2]
         IN  /\ IF BoxCommits(x1, y1, img_x, img_y)
                THEN LET marker == BoxMarker(FreshId, x1, y1, img_x, img_y)
                     IN  /\ box_markers' = Append(box_markers, marker)
                         /\ marker_history' = Append(marker_history, marker)
                         /\ UNCHANGED markers
                         /\ EmitsLast(<<"point_added", x1, y1>>)
                ELSE /\ UNCHANGED store
                     /\ NoSignal
             /\ cleanup_box_state

\* variant: a right press that cancels a draft also undoes
RightPressCancelsAndUndoes ==
    IF mode = "box" /\ box_start # NoItem
    THEN /\ cleanup_box_state
         /\ UndoBody
    ELSE /\ UndoBody
         /\ UNCHANGED draft

\* what a right press gives its caller: the exception of the undo it makes
RightPressReturn ==
    IF mode = "box" /\ box_start # NoItem THEN NoRet ELSE UndoReturn

\* right button: the draft, the lists and the signals after the press
RightPress ==
    IF mode = "box" /\ box_start # NoItem
    THEN /\ cleanup_box_state
         /\ NoSignal
         /\ UNCHANGED store
    ELSE /\ UndoBody
         /\ UNCHANGED draft

\* variant: any modifier key turns a left press into a pan
PanGestureAnyModifier(button, mods) ==
    button = "middle" \/ (button = "left" /\ mods # {})

\* the test of the pan branch: middle button, or left button with Ctrl in
\* event.modifiers()
PanGesture(button, mods) ==
    button = "middle" \/ (button = "left" /\ "ctrl" \in mods)

\* mousePressEvent with the scene position converted: (img_x, img_y) is
\* int() of the scene position of the press
PressBody(button, mods, img_x, img_y) ==
        /\ ret' = IF has_image /\ button = "right" THEN RightPressReturn ELSE NoRet
        /\ UNCHANGED <<image, zoom, mode, overlays>>
        /\ IF ~has_image
           THEN /\ NoSignal
                /\ UNCHANGED <<store, draft, cursor, is_panning>>
           ELSE IF button = "right"
           THEN /\ RightPress
                /\ UNCHANGED <<cursor, is_panning>>
           ELSE IF PanGesture(button, mods)
           THEN /\ is_panning' = TRUE
                /\ cursor' = "closed_hand"
                /\ NoSignal
                /\ UNCHANGED <<store, draft>>
           ELSE IF mode = "point"
           THEN /\ IF button = "left"
                   THEN PointPress(img_x, img_y)
                   ELSE UNCHANGED store /\ NoSignal
                /\ UNCHANGED <<draft, cursor, is_panning>>
           ELSE IF mode = "box"
           THEN /\ IF button = "left"
                   THEN BoxPress(img_x, img_y)
                   ELSE UNCHANGED <<store, draft>> /\ NoSignal
                /\ UNCHANGED <<cursor, is_panning>>
           ELSE /\ IF button = "left"
                   THEN is_panning' = TRUE /\ cursor' = "closed_hand"
                   ELSE UNCHANGED <<cursor, is_panning>>
                /\ NoSignal
                /\ UNCHANGED <<store, draft>>

mousePressEvent(button, mods, sx, sy) ==
    PressBody(button, mods, IntOf(sx), IntOf(sy))

\* variant: the release always restores the arrow cursor
mouseReleaseEventArrowCursor ==
    /\ ret' = NoRet
    /\ NoSignal
    /\ IF is_panning
       THEN is_panning' = FALSE /\ cursor' = "arrow"
       ELSE UNCHANGED <<is_panning, cursor>>
    /\ UNCHANGED <<image, store, zoom, draft, overlays, mode>>

mouseReleaseEvent ==
    /\ ret' = NoRet
    /\ NoSignal
    /\ IF is_panning
       THEN is_panning' = FALSE /\ cursor' = ModeCursor(mode)
       ELSE UNCHANGED <<is_panning, cursor>>
    /\ UNCHANGED <<image, store, zoom, draft, overlays, mode>>

\* variant: a left double-click fits the view in every mode
mouseDoubleClickEventAnyMode(button) ==
    /\ ret' = NoRet
    /\ NoSignal
    /\ IF has_image /\ button = "left"
       THEN FitViewBody
       ELSE UNCHANGED zoom
    /\ UNCHANGED <<image, store, draft, overlays, mode, cursor, is_panning>>

mouseDoubleClickEvent(button) ==
    /\ ret' = NoRet
    /\ NoSignal
    /\ IF has_image /\ mode = "hand" /\ button = "left"
       THEN FitViewBody
       ELSE UNCHANGED zoom
    /\ UNCHANGED <<image, store, draft, overlays, mode, cursor, is_panning>>

\* factor of a wheel event with angleDelta().y() = delta
WheelFactor(delta) == IF delta > 0 THEN ZOOM_FACTOR ELSE INV_ZOOM_FACTOR

\* variant: the new zoom is stored without the range test
WheelZoomUnchecked(z, delta) == DMul(z, WheelFactor(delta))

\* _current_zoom after a wheel event, with an image loaded
WheelZoom(z, delta) ==
    LET new_zoom == DMul(z, WheelFactor(delta))
    IN  IF DLeq(MIN_ZOOM, new_zoom) /\ DLeq(new_zoom, MAX_ZOOM) THEN new_zoom ELSE z

\* variant: the wheel zooms also when no image is loaded
wheelEventUnguarded(delta) ==
    /\ ret' = NoRet
    /\ NoSignal
    /\ current_zoom' = WheelZoom(current_zoom, delta)
    /\ zoom_steps' = zoom_steps + 1
    /\ UNCHANGED <<image, store, draft, overlays, mode, cursor, is_panning>>

wheelEvent(delta) ==
    /\ ret' = NoRet
    /\ NoSignal
    /\ IF ~has_image
       THEN UNCHANGED zoom
       ELSE /\ current_zoom' = WheelZoom(current_zoom, delta)
            /\ zoom_steps' = zoom_steps + 1
    /\ UNCHANGED <<image, store, draft, overlays, mode, cursor, is_panning>>

\* variant: the overlays are left as they are
leaveEventKeepsOverlays ==
    /\ ret' = NoRet
    /\ NoSignal
    /\ UNCHANGED <<image, store, zoom, draft, overlays, mode, cursor, is_panning>>

leaveEvent ==
    /\ ret' = NoRet
    /\ NoSignal
    /\ coord_visible' = FALSE
    /\ crosshair_visible' = FALSE
    /\ UNCHANGED <<image, store, zoom, draft, mode, cursor, is_panning>>

(***************************************************************************)
(* Specifications.                                                         *)
(***************************************************************************)
\* The observer of commits.  It watches the two typed collections only (never
\* _marker_history): a marker that appears in one of them is appended to
\* commit_order, a marker that disappears from them is dropped from it.
PresentIds(points, boxes) ==
    {points[i].id : i \in DOMAIN points} \cup {boxes[i].id : i \in DOMAIN boxes}

ObserveCommits ==
    LET before == PresentIds(markers, box_markers)
        after  == PresentIds(markers', box_markers')
        kept   == SelectSeq(commit_order, LAMBDA i : i \in after)
        new    == after \ before
    IN  commit_order' = IF new = {} THEN kept ELSE Append(kept, CHOOSE i \in new : TRUE)

\* the whole canvas: every operation and every event; the zoom moves one
\* wheel event away from 1.0 (SpecZoom follows it further)
Next ==
    \/ \E m \in Modes : set_mode(m) /\ ObserveCommits /\ UNCHANGED round_trip
    \/ toggle_mode /\ ObserveCommits /\ UNCHANGED round_trip
    \/ \E pm \in Images \cup {NullPixmap} : load_image(pm) /\ ObserveCommits /\ UNCHANGED round_trip
    \/ fit_view /\ ObserveCommits /\ UNCHANGED round_trip
    \/ clear_points /\ ObserveCommits /\ UNCHANGED round_trip
    \/ undo_last_marker /\ ObserveCommits /\ UNCHANGED round_trip
    \/ clear_all /\ ObserveCommits /\ UNCHANGED round_trip
    \/ \E p \in MovePositions : mouseMoveEvent(p[1], p[2]) /\ ObserveCommits /\ UNCHANGED round_trip
    \/ \E e \in Presses :
           /\ mousePressEvent(e[1], e[2], e[3][1], e[3][2])
           /\ Len(marker_history') <= MaxMarkers
           /\ scene_items'[2] <= MaxPreviewItems
           /\ ObserveCommits /\ UNCHANGED round_trip
    \/ mouseReleaseEvent /\ ObserveCommits /\ UNCHANGED round_trip
    \/ \E b \in Buttons : mouseDoubleClickEvent(b) /\ ObserveCommits /\ UNCHANGED round_trip
    \/ \E d \in WheelDeltas : zoom_steps = 0 /\ wheelEvent(d) /\ ObserveCommits /\ UNCHANGED round_trip
    \/ leaveEvent /\ ObserveCommits /\ UNCHANGED round_trip
    \/ \E d \in Drops : dropEvent(d) /\ ObserveCommits /\ UNCHANGED round_trip

Spec == Init /\ [][Next]_vars

\* the zoom: long runs of wheel events between loads, fits and clears
NextZoom ==
    \/ \E pm \in Images \cup {NullPixmap} : load_image(pm) /\ ObserveCommits /\ UNCHANGED round_trip
    \/ fit_view /\ ObserveCommits /\ UNCHANGED round_trip
    \/ clear_all /\ ObserveCommits /\ UNCHANGED round_trip
    \/ \E d \in WheelDeltas : zoom_steps < MaxZoomWheel /\ wheelEvent(d) /\ ObserveCommits /\ UNCHANGED round_trip

SpecZoom == Init /\ [][NextZoom]_vars

\* size of the image loaded in SpecMap
MapImage == <<6, 1>>

\* mousePressEvent for a plain left press at device pixel p of row 0, in a
\* view scaled by s and scrolled by scroll.  round_trip records the press
\* that commits a point: the marker's coordinate and where the view shows
\* the marker.
mousePressEventAt(p, scroll, s) ==
    LET scene == SceneOf(p, scroll, s)
    IN  /\ PressBody("left", {}, IntOfFraction(scene), 0)
        /\ round_trip' =
               IF Len(markers') > Len(markers)
               THEN LET img == markers'[Len(markers')].img_x
                    IN  [done |-> TRUE, screen |-> p, scroll |-> scroll, scale |-> s,
                         scene |-> scene, img |-> img, back |-> ViewOf(img, scroll, s)]
               ELSE round_trip

\* the coordinate conversion: presses over pointer positions, scrolls and
\* scales, on an image loaded and in the modes set
NextMap ==
    \/ load_image(MapImage) /\ ObserveCommits /\ UNCHANGED round_trip
    \/ set_mode("point") /\ ObserveCommits /\ UNCHANGED round_trip
    \/ clear_points /\ ObserveCommits /\ UNCHANGED round_trip
    \/ \E p \in ScreenXs : \E scroll \in Scrolls : \E s \in Scales :
           /\ mousePressEventAt(p, scroll, s)
           /\ Len(marker_history') <= MaxMarkers
           /\ ObserveCommits

SpecMap == Init /\ [][NextMap]_vars

(***************************************************************************)
(* Properties.                                                             *)
(***************************************************************************)
\* a plain primary-button press at scene position p
PlainLeftPress(p) == mousePressEvent("left", {}, p[1], p[2])

\* the image coordinate of scene position p
ImgX(p) == IntOf(p[1])
ImgY(p) == IntOf(p[2])

\* list is old with exactly the element m appended
Appended(old, list, m) == list = Append(old, m)

\* C1: in every reachable state the history has as many entries as there are
\* point markers and box markers together.
C1_HistoryLength == Len(marker_history) = Len(markers) + Len(box_markers)

\* a point and a box are present together
C1_Witness == Len(markers) >= 1 /\ Len(box_markers) >= 1 /\ Len(marker_history) = 2

\* C2: a call of undo_last_marker with a non-empty history (from the host or
\* from a right click outside a draft) removes exactly the marker committed
\* last among those present, from the collection of its kind, and leaves all
\* other markers where they are.
C2_UndoStep ==
    \/ undo_last_marker
    \/ /\ has_image
       /\ ~(mode = "box" /\ box_start # NoItem)
       /\ \E p \in ScenePositions : mousePressEvent("right", {}, p[1], p[2])

C2_ReverseCommitOrder ==
    [][ (C2_UndoStep /\ marker_history # <<>>) =>
            /\ commit_order # <<>>
            /\ LET last == commit_order[Len(commit_order)]
               IN  /\ markers' = SelectSeq(markers, LAMBDA m : m.id # last)
                   /\ box_markers' = SelectSeq(box_markers, LAMBDA m : m.id # last)
                   /\ Len(markers') + Len(box_markers')
                          = Len(markers) + Len(box_markers) - 1
                   /\ \/ /\ \E i \in DOMAIN markers : markers[i].id = last
                         /\ box_markers' = box_markers
                      \/ /\ \E i \in DOMAIN box_markers : box_markers[i].id = last
                         /\ markers' = markers
    ]_vars

\* an undo has just removed a marker committed after a box that is still there
C2_Witness ==
    /\ emitted = << <<"point_undone">> >>
    /\ Len(box_markers) = 1
    /\ markers = <<>>
    /\ Len(marker_history) = 1

\* C3: every box in the box collection has x1 <= x2, y1 <= y2, width > 0 and
\* height > 0.
C3_BoxesHaveArea ==
    \A i \in DOMAIN box_markers :
        LET b == box_markers[i]
        IN  /\ b.x1 <= b.x2
            /\ b.y1 <= b.y2
            /\ b.width = b.x2 - b.x1
            /\ b.height = b.y2 - b.y1
            /\ b.width > 0
            /\ b.height > 0

\* C4: in Box mode with a draft anchored at (ax, ay), a plain primary press at
\* an in-bounds (bx, by) other than the anchor appends exactly the box
\* (min(ax,bx), min(ay,by), max(ax,bx), max(ay,by)) to the box collection and
\* to the history, and leaves no draft.
C4_SecondClickCommits ==
    [][ \A p \in ScenePositions :
          ( /\ has_image
            /\ mode = "box"
            /\ box_start # NoItem
            /\ InPixmap(ImgX(p), ImgY(p), pixmap)
            /\ <<ImgX(p), ImgY(p)>> # box_start
            /\ PlainLeftPress(p) )
          => LET ax == box_start[1]
                 ay == box_start[2]
                 bx == ImgX(p)
                 by == ImgY(p)
             IN  /\ Len(box_markers') = Len(box_markers) + 1
                 /\ SubSeq(box_markers', 1, Len(box_markers)) = box_markers
                 /\ LET b == box_markers'[Len(box_markers')]
                    IN  /\ b.x1 = (IF ax <= bx THEN ax ELSE bx)
                        /\ b.y1 = (IF ay <= by THEN ay ELSE by)
                        /\ b.x2 = (IF ax <= bx THEN bx ELSE ax)
                        /\ b.y2 = (IF ay <= by THEN by ELSE ay)
                        /\ Appended(marker_history, marker_history', b)
                 /\ markers' = markers
                 /\ box_start' = NoItem
    ]_vars

\* the box (1,0,1,1) was just committed from the anchor (1,1) and the second
\* click (1,0): the corners needed normalising
C4_Witness ==
    /\ mode = "box"
    /\ box_start = NoItem
    /\ emitted = << <<"point_added", 1, 1>> >>
    /\ box_markers # <<>>
    /\ LET b == box_markers[Len(box_markers)]
       IN  <<b.x1, b.y1, b.x2, b.y2>> = <<1, 0, 1, 1>>

\* C5: in Box mode with a draft, a plain primary press at the anchor itself
\* adds no box and no history entry, emits nothing and clears the draft; the
\* next plain in-bounds press then starts a new draft at its own coordinate.
C5_DegenerateDiscarded ==
    [][ \A p \in ScenePositions :
          ( /\ has_image
            /\ mode = "box"
            /\ InPixmap(ImgX(p), ImgY(p), pixmap)
            /\ PlainLeftPress(p) )
          => IF box_start = <<ImgX(p), ImgY(p)>>
             THEN /\ UNCHANGED store
                  /\ emitted' = <<>>
                  /\ box_start' = NoItem
                  /\ box_temp_point' = NoItem
                  /\ ~box_preview'.visible
             ELSE box_start = NoItem => box_start' = <<ImgX(p), ImgY(p)>>
    ]_vars

\* a draft was opened and closed again without a pointer move, a commit or a
\* notification: the preview item exists, hidden, with its initial rectangle
C5_Witness ==
    /\ mode = "box"
    /\ has_image
    /\ box_start = NoItem
    /\ box_temp_point = NoItem
    /\ box_preview = PreviewItem(FALSE, <<0, 0, 0, 0>>)
    /\ emitted = <<>>
    /\ marker_history = <<>>

\* MIN_ZOOM <= z <= MAX_ZOOM
ZoomInRange(z) == DLeq(MIN_ZOOM, z) /\ DLeq(z, MAX_ZOOM)

\* C6: in every reachable state MIN_ZOOM <= _current_zoom <= MAX_ZOOM.
C6_ZoomWithinBounds == ZoomInRange(current_zoom)

\* the zoom stands at the largest value below MAX_ZOOM and a zoom-in has been
\* turned down: 27 wheel events raised it, the 28th was rejected
C6_Witness ==
    /\ has_image
    /\ zoom_steps = 28
    /\ DLess(MAX_ZOOM, DMul(current_zoom, ZOOM_FACTOR))

\* the zoom a wheel event of the given delta leaves according to C7
C7_ClaimedZoom(z, delta) ==
    IF delta > 0 /\ ZoomInRange(DMul(z, ZOOM_FACTOR)) THEN DMul(z, ZOOM_FACTOR)
    ELSE IF delta < 0 /\ ZoomInRange(DMul(z, INV_ZOOM_FACTOR)) THEN DMul(z, INV_ZOOM_FACTOR)
    ELSE z

\* C7: with an image loaded a wheel event multiplies z by ZOOM_FACTOR only for a
\* positive delta, divides it by ZOOM_FACTOR only for a negative delta, both
\* only when the result is within [MIN_ZOOM, MAX_ZOOM], and otherwise keeps z.
C7_ZoomBySignOfDelta ==
    [][ \A d \in WheelDeltas :
          (has_image /\ wheelEvent(d)) => current_zoom' = C7_ClaimedZoom(current_zoom, d)
    ]_vars

\* the frame of C8 and what "reset" means in C9
C8_Frame == <<has_image, pixmap, markers, box_markers, marker_history, current_zoom,
              mode, box_start, box_temp_point, box_preview>>

\* C8: a load_image call whose pixmap is null returns False and leaves the
\* image, has_image, the points, boxes and history, the zoom, the mode and the
\* draft as they were.
C8_FailedLoadChangesNothing ==
    [][ load_image(NullPixmap) => (ret' = "False" /\ UNCHANGED C8_Frame) ]_vars

\* a failed load has returned on a canvas that holds an image, a marker, a
\* draft in progress and a zoom other than 1.0
C8_Witness ==
    /\ ret = "False"
    /\ has_image
    /\ marker_history # <<>>
    /\ mode = "box"
    /\ box_start # NoItem
    /\ current_zoom # One

\* no marker, no draft, zoom 1.0, overlays hidden
C9_Reset ==
    /\ markers = <<>>
    /\ box_markers = <<>>
    /\ marker_history = <<>>
    /\ box_start = NoItem
    /\ box_temp_point = NoItem
    /\ ~box_preview.visible
    /\ current_zoom = One
    /\ ~coord_visible
    /\ ~crosshair_visible

\* C9: a successful load_image returns True and leaves the canvas reset with
\* has_image true; clear_all leaves it reset with has_image false.
C9_LoadAndClearAllReset ==
    [][ /\ (\E pm \in Images : load_image(pm)) => (ret' = "True" /\ C9_Reset' /\ has_image')
        /\ clear_all => (C9_Reset' /\ ~has_image')
    ]_vars

\* a load has succeeded on a canvas in Box mode whose preview item, made by an
\* earlier draft, is still in the scene; the new image is the 2x1 one
C9_Witness ==
    /\ ret = "True"
    /\ has_image
    /\ pixmap = <<2, 1>>
    /\ mode = "box"
    /\ box_preview.item
    /\ C9_Reset

\* C10: in Point mode with an image loaded, a plain primary press at an
\* in-bounds (x, y) appends exactly one point marker (x, y) to the point
\* collection and to the history and changes neither the boxes nor the zoom,
\* the mode or the draft.
C10_PointCommit ==
    [][ \A p \in ScenePositions :
          ( /\ has_image
            /\ mode = "point"
            /\ InPixmap(ImgX(p), ImgY(p), pixmap)
            /\ PlainLeftPress(p) )
          => /\ Len(markers') = Len(markers) + 1
             /\ SubSeq(markers', 1, Len(markers)) = markers
             /\ LET m == markers'[Len(markers')]
                IN  /\ m.kind = "point"
                    /\ m.img_x = ImgX(p)
                    /\ m.img_y = ImgY(p)
                    /\ Appended(marker_history, marker_history', m)
             /\ UNCHANGED <<box_markers, current_zoom, mode, box_start, box_temp_point,
                            box_preview>>
    ]_vars

\* the point (1, 0) was just committed on a canvas that holds a box and has
\* a zoom other than 1.0
C10_Witness ==
    /\ mode = "point"
    /\ emitted = << <<"point_added", 1, 0>> >>
    /\ Len(markers) = 1
    /\ markers[1].img_x = 1 /\ markers[1].img_y = 0
    /\ Len(box_markers) = 1
    /\ current_zoom # One

\* a right-button press (its effect does not depend on the position)
RightButtonPress == \E p \in ScenePositions : mousePressEvent("right", {}, p[1], p[2])

\* a call of set_mode or toggle_mode
ModeCall == toggle_mode \/ \E m \in Modes : set_mode(m)

\* TRUE iff the signal name is among the signals sigs
Emits(sigs, name) == \E i \in DOMAIN sigs : sigs[i][1] = name

\* C11: a right-button press with an image loaded does exactly one of two
\* things.  With a box draft active it cancels the draft (no anchor, preview
\* hidden), leaves points, boxes and history as they were and emits no
\* point_undone.  Without a draft it has exactly the effect of
\* undo_last_marker and leaves the draft state alone.  Never both.
C11_RightClickCancelsOrUndoes ==
    [][ (has_image /\ RightButtonPress) =>
            IF box_start # NoItem
            THEN /\ box_start' = NoItem
                 /\ ~box_preview'.visible
                 /\ UNCHANGED store
                 /\ ~Emits(emitted', "point_undone")
            ELSE /\ undo_last_marker
                 /\ UNCHANGED draft ]_vars

\* a cancelled draft (preview item hidden, no anchor) in Box mode with a
\* marker still in the history and nothing emitted
C11_Witness ==
    /\ has_image
    /\ mode = "box"
    /\ box_start = NoItem
    /\ box_preview.item /\ ~box_preview.visible
    /\ Len(marker_history) = 2
    /\ emitted = <<>>

\* C12: a draft (an anchor) is active only in Box mode, and every set_mode or
\* toggle_mode executed in Box mode (set_mode(BOX) included) leaves no draft,
\* hides the preview and commits no marker.
C12_DraftOnlyInBoxMode ==
    /\ [](box_start # NoItem => mode = "box")
    /\ [][ (mode = "box" /\ ModeCall) =>
               /\ box_start' = NoItem
               /\ ~box_preview'.visible
               /\ UNCHANGED store
               /\ ~Emits(emitted', "point_added") ]_vars

\* Point mode right after a mode call, with the preview item of an earlier
\* draft hidden and no anchor
C12_Witness ==
    /\ mode = "point"
    /\ emitted = << <<"mode_changed", "point">> >>
    /\ box_start = NoItem
    /\ box_preview.item /\ ~box_preview.visible

\* the cycle Hand -> Point -> Box -> Hand
ModeAfter(m) ==
    CASE m = "hand" -> "point" [] m = "point" -> "box" [] m = "box" -> "hand"

\* C13: the mode is Hand initially and always one of Hand, Point, Box;
\* toggle_mode advances it Hand -> Point -> Box -> Hand, so three toggles
\* return to the starting mode; set_mode(m) results in m from every mode; no
\* other operation changes the mode.
C13_ModeMachine ==
    /\ mode = "hand"
    /\ [](mode \in {"hand", "point", "box"})
    /\ [](ToggleTarget(ToggleTarget(ToggleTarget(mode))) = mode)
    /\ [][ /\ toggle_mode => mode' = ModeAfter(mode)
           /\ \A m \in Modes : set_mode(m) => mode' = m
           /\ mode' # mode => ModeCall ]_vars

\* Box mode right after the mode call that led to it, with an image loaded
C13_Witness ==
    /\ mode = "box"
    /\ has_image
    /\ emitted = << <<"mode_changed", "box">> >>

\* C14: every call of set_mode or toggle_mode emits exactly one mode_changed
\* that carries the resulting mode, also when the mode does not change; no
\* other operation emits mode_changed.
C14_ModeChangedSignal ==
    [][ /\ ModeCall => emitted' = << <<"mode_changed", mode'>> >>
        /\ Emits(emitted', "mode_changed") => ModeCall ]_vars

\* Hand mode right after a mode call, with markers on the canvas
C14_Witness ==
    /\ mode = "hand"
    /\ emitted = << <<"mode_changed", "hand">> >>
    /\ Len(marker_history) = 2


\* the number of markers in the two typed collections
Stored(points, boxes) == Len(points) + Len(boxes)

\* C15: undo_last_marker on an empty history changes no state (points,
\* boxes, history, draft, zoom, mode) and emits nothing; a call that removes
\* a marker emits point_undone exactly once, after the marker has left its
\* collection (a slot connected to the signal finds one marker fewer).
C15_UndoOnEmptyAndSignal ==
    [][ undo_last_marker =>
            IF marker_history = <<>>
            THEN /\ UNCHANGED <<store, draft, zoom, mode, image, overlays, cursor, is_panning>>
                 /\ emitted' = <<>>
            ELSE /\ Stored(markers', box_markers') = Stored(markers, box_markers) - 1
                 /\ emitted' = << <<"point_undone">> >>
                 /\ Len(slot_view') = 1
                 /\ slot_view'[1][1] + slot_view'[1][2] = Stored(markers, box_markers) - 1 ]_vars

\* right after an undo that removed one of two markers: the slot of
\* point_undone found the one that remains
C15_Witness ==
    /\ emitted = << <<"point_undone">> >>
    /\ slot_view = << <<0, 1>> >>
    /\ Len(marker_history) = 1

\* the kind of the marker an undo is about to remove
NewestKind == marker_history[Len(marker_history)].kind

\* TRUE iff some signal of sigs carries the argument v
Carries(sigs, v) ==
    \E i \in DOMAIN sigs : \E j \in 2 .. Len(sigs[i]) : sigs[i][j] = v

\* C16 as claimed: undo_last_marker, when it removes a marker, reports to its
\* caller which kind (point or box) was removed, by its return value or by
\* the signal it emits.
C16_UndoReportsKind ==
    [][ (undo_last_marker /\ marker_history # <<>>) =>
            (ret' = NewestKind \/ Carries(emitted', NewestKind)) ]_vars

\* C16 amended: undo_last_marker, when it removes a marker, returns None and
\* emits point_undone without an argument, the same for a point and for a
\* box; the kind removed is not reported.
C16_UndoReportsRemovalOnly ==
    [][ (undo_last_marker /\ marker_history # <<>>) =>
            /\ ret' = NoRet
            /\ emitted' = << <<"point_undone">> >>
            /\ ~Carries(emitted', NewestKind) ]_vars

\* right after an undo that returned None and left the first point committed
C16_Witness ==
    /\ emitted = << <<"point_undone">> >>
    /\ ret = NoRet
    /\ Len(markers) = 1 /\ box_markers = <<>>
    /\ commit_order = <<1>>

\* C17: clear_points empties points, boxes and history, emits points_cleared
\* exactly once and changes nothing else: image, has_image, zoom, mode and a
\* draft in progress are as before.
C17_ClearPointsFrame ==
    [][ clear_points =>
            /\ markers' = <<>> /\ box_markers' = <<>> /\ marker_history' = <<>>
            /\ emitted' = << <<"points_cleared">> >>
            /\ UNCHANGED <<image, zoom, mode, draft, overlays, cursor, is_panning>> ]_vars

\* right after clear_points with a draft in progress and a zoom other than 1.0
C17_Witness ==
    /\ emitted = << <<"points_cleared">> >>
    /\ marker_history = <<>>
    /\ box_start # NoItem /\ box_preview.visible
    /\ current_zoom # One

\* C18: every stored point has 0 <= x < W and 0 <= y < H and every stored box
\* 0 <= x1 <= x2 < W and 0 <= y1 <= y2 < H, W x H the size of the image
\* loaded now, also after an image of another size has been loaded.
C18_MarkersInsideImage ==
    /\ \A i \in DOMAIN markers :
           /\ has_image
           /\ 0 <= markers[i].img_x /\ markers[i].img_x < pixmap[1]
           /\ 0 <= markers[i].img_y /\ markers[i].img_y < pixmap[2]
    /\ \A i \in DOMAIN box_markers :
           /\ has_image
           /\ 0 <= box_markers[i].x1 /\ box_markers[i].x1 <= box_markers[i].x2
           /\ box_markers[i].x2 < pixmap[1]
           /\ 0 <= box_markers[i].y1 /\ box_markers[i].y1 <= box_markers[i].y2
           /\ box_markers[i].y2 < pixmap[2]

\* two points stored in the 2x1 image
C18_Witness ==
    /\ has_image
    /\ pixmap = <<2, 1>>
    /\ Len(markers) = 2

\* the round trip's error in device pixels, times the scale's denominator:
\* the pointer position minus the position the view gives the image coordinate
RoundTripError == round_trip.screen * round_trip.back[2] - round_trip.back[1]

\* C19 as claimed: at a fixed zoom and pan, converting a screen position to
\* image coordinates and back gives a position within one device pixel of
\* the original, for every screen position and every zoom.
C19_RoundTripWithinDevicePixel ==
    round_trip.done => Abs(RoundTripError) <= round_trip.back[2]

\* C19 amended: the round trip gives a position within one image pixel of the
\* original, on the side of the scene origin: less than s device pixels away
\* at a scale of s device pixels per image pixel, so within one device pixel
\* only when s <= 1.
C19_RoundTripWithinImagePixel ==
    round_trip.done =>
        LET d == RoundTripError
            s == round_trip.scale
        IN  /\ round_trip.scene[1] >= 0 => (0 <= d /\ d < s[1])
            /\ round_trip.scene[1] < 0 => (-s[1] < d /\ d <= 0)
            /\ s[1] <= s[2] => Abs(d) < s[2]

\* device pixel 7 at scale 4: image coordinate 1, shown at device pixel 4
C19_Witness ==
    /\ round_trip.done
    /\ round_trip.scale = <<4, 1>>
    /\ round_trip.screen = 7 /\ round_trip.scroll = 0
    /\ round_trip.img = 1
    /\ RoundTripError = 3

\* TRUE iff the image coordinate of scene position p is outside
\* [0, W) x [0, H) of the image loaded
OutsideImage(p) ==
    ~(0 <= ImgX(p) /\ ImgX(p) < pixmap[1] /\ 0 <= ImgY(p) /\ ImgY(p) < pixmap[2])

\* C20: a plain primary-button press whose image coordinate is outside the
\* image changes nothing.  In Point mode no point is added; in Box mode no
\* draft is started, and a draft in progress stays with the same anchor and
\* commits no box; points, boxes and history are unchanged and no signal is
\* emitted.
C20_OutOfBoundsPressIgnored ==
    [][ \A p \in ScenePositions :
            (has_image /\ mode \in {"point", "box"} /\ OutsideImage(p) /\ PlainLeftPress(p)) =>
                /\ UNCHANGED <<store, draft>>
                /\ UNCHANGED <<image, zoom, mode, overlays, cursor, is_panning>>
                /\ emitted' = <<>> ]_vars

\* a draft in progress whose preview followed the pointer, after an event
\* that emitted nothing
C20_Witness ==
    /\ mode = "box"
    /\ box_start # NoItem
    /\ box_preview.visible /\ box_preview.rect # <<0, 0, 0, 0>>
    /\ coord_visible
    /\ emitted = <<>>


\* C21 as claimed: with an image loaded, a middle-button press or a
\* primary-button press with a modifier key held begins panning in every mode
\* and takes precedence over the mode's click: it commits no point, starts,
\* advances or commits no draft, and leaves points, boxes, history and draft
\* unchanged.  In Hand mode a plain primary press also begins panning.
C21_ModifierPressPans ==
    [][ \A e \in Presses :
            (has_image /\ mousePressEvent(e[1], e[2], e[3][1], e[3][2])) =>
                /\ (e[1] = "middle" \/ (e[1] = "left" /\ e[2] # {})) =>
                       /\ is_panning'
                       /\ UNCHANGED <<store, draft>>
                       /\ emitted' = <<>>
                /\ (mode = "hand" /\ e[1] = "left") => is_panning' ]_vars

\* C21 amended: with an image loaded, a middle-button press or a
\* primary-button press with the Control key held begins panning in every
\* mode, commits nothing and leaves points, boxes, history and draft
\* unchanged; a primary press with Shift alone is handled as a plain primary
\* press.  In Hand mode a plain primary press also begins panning.
C21_CtrlPressPans ==
    [][ has_image =>
            /\ \A e \in {x \in Presses : x[1] = "middle" \/ x[2] # {}} :
                   mousePressEvent(e[1], e[2], e[3][1], e[3][2]) =>
                       IF e[1] = "middle" \/ "ctrl" \in e[2]
                       THEN /\ is_panning'
                            /\ cursor' = "closed_hand"
                            /\ UNCHANGED <<store, draft>>
                            /\ emitted' = <<>>
                       ELSE PlainLeftPress(e[3])
            /\ mode = "hand" =>
                   \A p \in ScenePositions : PlainLeftPress(p) => is_panning' ]_vars

\* a pan begun in Point mode with a point on the canvas
C21_Witness ==
    /\ has_image
    /\ mode = "point"
    /\ is_panning /\ cursor = "closed_hand"
    /\ Len(markers) = 1
    /\ emitted = <<>>


\* C22: a double-click with the primary button in Hand mode with an image
\* loaded has exactly the effect of fit_view: the zoom becomes 1.0 and
\* markers, history, mode and draft are unchanged.  A double-click in Point
\* or Box mode (any button), or with no image loaded, changes no canvas
\* state: no marker, no draft started or advanced, zoom unchanged.
C22_DoubleClickFitsInHandMode ==
    [][ \A b \in Buttons :
            mouseDoubleClickEvent(b) =>
                IF has_image /\ mode = "hand" /\ b = "left"
                THEN /\ fit_view
                     /\ current_zoom' = One
                     /\ UNCHANGED <<store, mode, draft>>
                ELSE /\ UNCHANGED <<image, store, zoom, draft, mode>>
                     /\ UNCHANGED <<overlays, cursor, is_panning>>
                     /\ emitted' = <<>> ]_vars

\* Hand mode at zoom 1.0 with two markers, after an event that emitted
\* nothing
C22_Witness ==
    /\ has_image
    /\ mode = "hand"
    /\ current_zoom = One /\ zoom_steps = 0
    /\ Len(marker_history) = 2
    /\ emitted = <<>>
    /\ ~is_panning


\* both cursor overlays hidden
OverlaysHidden == ~coord_visible /\ ~crosshair_visible

\* C23 as claimed: the coordinate readout and the crosshair are visible only
\* if an image is loaded; after every pointer-move event that puts the cursor
\* outside the image (whether or not a pan is in progress), after the pointer
\* leaves the canvas, and whenever no image is loaded, both are hidden.
C23_OverlaysHiddenOutside ==
    /\ [](~has_image => OverlaysHidden)
    /\ [][ /\ \A p \in MovePositions :
                  (mouseMoveEvent(p[1], p[2]) /\ (~has_image \/ OutsideImage(p))) =>
                      OverlaysHidden'
           /\ leaveEvent => OverlaysHidden' ]_vars

\* C23 amended: the coordinate readout and the crosshair are visible only if
\* an image is loaded; after every pointer-move event handled while no pan is
\* in progress that puts the cursor outside the image, after the pointer
\* leaves the canvas, and whenever no image is loaded, both are hidden.  A
\* pointer-move event during a pan leaves both as they were.
C23_OverlaysHiddenOutsideUnlessPanning ==
    /\ [](~has_image => OverlaysHidden)
    /\ [][ /\ \A p \in MovePositions :
                  mouseMoveEvent(p[1], p[2]) =>
                      IF is_panning THEN UNCHANGED overlays
                      ELSE IF ~has_image \/ OutsideImage(p) THEN OverlaysHidden'
                      ELSE coord_visible' /\ crosshair_visible'
           /\ leaveEvent => OverlaysHidden' ]_vars

\* a pan in progress with both overlays still visible, after a mode call
C23_Witness ==
    /\ is_panning
    /\ coord_visible /\ crosshair_visible
    /\ Emits(emitted, "mode_changed")

\* C24 as claimed: every pointer-move event with an image loaded whose image
\* coordinate (x, y) is inside the image emits coord_changed(x, y) with
\* exactly that coordinate; a move outside the image, or with no image
\* loaded, emits none.
C24_EveryValidMoveEmits ==
    [][ \A p \in MovePositions :
            mouseMoveEvent(p[1], p[2]) =>
                IF has_image /\ ~OutsideImage(p)
                THEN emitted' = << <<"coord_changed", ImgX(p), ImgY(p)>> >>
                ELSE ~Emits(emitted', "coord_changed") ]_vars

\* C24 amended: every pointer-move event handled while no pan is in progress,
\* with an image loaded and an image coordinate (x, y) inside the image,
\* emits coord_changed(x, y) with exactly that coordinate; a move outside the
\* image, with no image loaded, or during a pan emits none.
C24_ValidMoveEmitsUnlessPanning ==
    [][ \A p \in MovePositions :
            mouseMoveEvent(p[1], p[2]) =>
                IF has_image /\ ~is_panning /\ ~OutsideImage(p)
                THEN emitted' = << <<"coord_changed", ImgX(p), ImgY(p)>> >>
                ELSE ~Emits(emitted', "coord_changed") ]_vars

\* right after a move over pixel (0, 1) in Point mode
C24_Witness ==
    /\ emitted = << <<"coord_changed", 0, 1>> >>
    /\ mode = "point"
    /\ coord_visible


\* the normalised rectangle spanning the anchor a and the image coordinate of
\* scene position p: left, top, width, height
SpanRect(a, p) ==
    << IF a[1] <= ImgX(p) THEN a[1] ELSE ImgX(p),
       IF a[2] <= ImgY(p) THEN a[2] ELSE ImgY(p),
       IF a[1] <= ImgX(p) THEN ImgX(p) - a[1] ELSE a[1] - ImgX(p),
       IF a[2] <= ImgY(p) THEN ImgY(p) - a[2] ELSE a[2] - ImgY(p) >>

\* C25 as claimed: while a box draft is active, every pointer-move event
\* updates the preview rectangle to the normalised rectangle spanning the
\* anchor and the cursor's image coordinate, also when that coordinate is
\* outside the image.
C25_PreviewFollowsEveryMove ==
    [][ \A p \in MovePositions :
            (mouseMoveEvent(p[1], p[2]) /\ box_start # NoItem) =>
                /\ box_preview'.visible
                /\ box_preview'.rect = SpanRect(box_start, p) ]_vars

\* C25 amended: while a box draft is active and no pan is in progress, every
\* pointer-move event whose image coordinate is inside the image updates the
\* preview rectangle to the normalised rectangle spanning the anchor and that
\* coordinate; a move whose image coordinate is outside the image, or a move
\* during a pan, leaves the preview as it was.
C25_PreviewFollowsMovesInside ==
    [][ \A p \in MovePositions :
            (mouseMoveEvent(p[1], p[2]) /\ box_start # NoItem) =>
                IF ~is_panning /\ ~OutsideImage(p)
                THEN /\ box_preview'.visible
                     /\ box_preview'.rect = SpanRect(box_start, p)
                     /\ UNCHANGED <<box_start, box_temp_point>>
                ELSE UNCHANGED draft ]_vars

\* a draft anchored at (1, 0) whose preview spans to the pointer at (0, 1)
C25_Witness ==
    /\ box_start = <<1, 0>>
    /\ box_preview.visible
    /\ box_preview.rect = <<0, 0, 1, 1>>
    /\ emitted = << <<"coord_changed", 0, 1>> >>


\* the kind of marker a signal announces, which it does by its name (no
\* signal of the canvas has a kind among its arguments)
AnnouncedKind(sig) ==
    IF sig[1] = "point_added" THEN "point"
    ELSE IF sig[1] = "box_added" THEN "box"
    ELSE "none"

\* the coordinates of a marker as its collection lists them
CoordsOf(m) ==
    IF m.kind = "point" THEN <<m.img_x, m.img_y>> ELSE <<m.x1, m.y1, m.x2, m.y2>>

\* the marker a step has committed, if it committed one
Committed(old, new) == new[Len(new)]

\* C26: each commit of a point or of a box emits exactly one marker-added
\* notification that carries the committed marker's kind and its
\* coordinates, and a press that commits nothing emits none, so there are as
\* many notifications as commits.
C26_MarkerAddedCarriesMarker ==
    [][ \A e \in Presses :
            mousePressEvent(e[1], e[2], e[3][1], e[3][2]) =>
                IF Len(marker_history') > Len(marker_history)
                THEN LET m == Committed(marker_history, marker_history')
                     IN  /\ Len(emitted') = 1
                         /\ AnnouncedKind(emitted'[1]) = m.kind
                         /\ SubSeq(emitted'[1], Len(emitted'[1]) - Len(CoordsOf(m)) + 1,
                                   Len(emitted'[1])) = CoordsOf(m)
                ELSE ~Emits(emitted', "point_added") ]_vars

\* C27: whenever no image is loaded, points, boxes and history are empty, no
\* draft is active and the zoom is 1.0; a wheel event or a press of any
\* button in that state changes none of them and starts no pan.
C27_NoImageState ==
    /\ [](~has_image =>
              /\ markers = <<>> /\ box_markers = <<>> /\ marker_history = <<>>
              /\ box_start = NoItem
              /\ current_zoom = One)
    /\ [][ ~has_image =>
              /\ \A d \in WheelDeltas :
                     wheelEvent(d) => UNCHANGED <<store, draft, zoom, is_panning>>
              /\ \A e \in Presses :
                     mousePressEvent(e[1], e[2], e[3][1], e[3][2]) =>
                         UNCHANGED <<store, draft, zoom, is_panning, cursor>> ]_vars

\* no image, in Box mode, with the hidden preview item of a draft made before
\* the image was cleared
C27_Witness ==
    /\ ~has_image
    /\ mode = "box"
    /\ box_preview.item /\ ~box_preview.visible
    /\ emitted = <<>>

\* C28: the points get_points lists are exactly the point entries of the
\* history in history order, the boxes get_boxes lists exactly its box
\* entries in history order, and every marker occurs once in the history and
\* once in its typed collection.
C28_CollectionsAreHistorySubsequences ==
    /\ markers = SelectSeq(marker_history, LAMBDA m : m.kind = "point")
    /\ box_markers = SelectSeq(marker_history, LAMBDA m : m.kind = "box")
    /\ Cardinality({marker_history[i].id : i \in DOMAIN marker_history}) = Len(marker_history)
    /\ Cardinality(PresentIds(markers, box_markers)) = Len(markers) + Len(box_markers)

\* a box committed before a point, both present
C28_Witness ==
    /\ Len(marker_history) = 2
    /\ marker_history[1].kind = "box"
    /\ marker_history[2].kind = "point"
    /\ Len(markers) = 1 /\ Len(box_markers) = 1


\* the cursor glyph of a mode: arrow, red crosshair, green crosshair
GlyphOf(m) ==
    CASE m = "hand" -> "arrow" [] m = "point" -> "point_cursor" [] m = "box" -> "box_cursor"

\* a press that starts a pan: middle button, Ctrl and left button, or a left
\* press in Hand mode
PanStartingPress ==
    \E e \in Presses :
        /\ e[1] = "middle" \/ (e[1] = "left" /\ ("ctrl" \in e[2] \/ mode = "hand"))
        /\ mousePressEvent(e[1], e[2], e[3][1], e[3][2])

\* C29: a pan is active only from a pan-starting press made with an image
\* loaded until the next button release; while it is active a pointer-move
\* event changes only the scroll offset: no marker, history entry, draft
\* anchor, preview, zoom or mode, and it emits no coord_changed; the release
\* ends the pan and sets the cursor glyph of the mode current at release.
C29_PanLifecycle ==
    [][ /\ (~is_panning /\ is_panning') => (has_image /\ PanStartingPress)
        /\ (is_panning /\ ~is_panning') => mouseReleaseEvent
        /\ mouseReleaseEvent =>
               /\ ~is_panning'
               /\ is_panning => cursor' = GlyphOf(mode)
               /\ UNCHANGED mode
        /\ is_panning =>
               \A p \in MovePositions :
                   mouseMoveEvent(p[1], p[2]) =>
                       /\ UNCHANGED <<store, draft, zoom, mode, image, overlays>>
                       /\ UNCHANGED <<is_panning, cursor>>
                       /\ emitted' = <<>> ]_vars

\* a pan in progress that began in Box mode during a draft
C29_Witness ==
    /\ is_panning
    /\ cursor = "closed_hand"
    /\ mode = "box"
    /\ box_start # NoItem /\ box_preview.visible


\* C30: the transient draft items are bounded: the scene holds at most one
\* draft anchor marker and at most one preview rectangle, however many drafts
\* have been started, committed or cancelled, and an anchor marker item
\* exists exactly when a draft is active.
C30_DraftItemsBounded ==
    /\ scene_items[1] <= 1
    /\ scene_items[2] <= 1
    /\ (scene_items[1] = 1) <=> (box_start # NoItem)


====
